---------------------------- MODULE Spec2Model ----------------------------
(***************************************************************************)
(* Sweep expansion and run orchestration of src/src/run_experiment.py:     *)
(* split_configs (lines 37-53) and run_experiment (lines 56-230).          *)
(*                                                                         *)
(* A config value is a record [isList, val]: a scalar v is                 *)
(* [isList |-> FALSE, val |-> <<v>>], a Python list is                     *)
(* [isList |-> TRUE, val |-> <<the candidates>>].  A dict is a function    *)
(* over its keys; KeyOrder is the dict's insertion order.                  *)
(*                                                                         *)
(* The collaborators that are imported but are not part of the file        *)
(* (get_configs, create_models_dir, RunContext.aml_step, the pipeline,     *)
(* run_single_seed_experiment, run_aggregation, mlflow) are modelled from  *)
(* their documented contracts.                                             *)
(***************************************************************************)
EXTENDS Integers, Sequences, FiniteSets, TLC

\* ------------------------------------------------------------- bounds
MaxVal == 2          \* scalar hyperparameter values are 1..MaxVal
MaxListLen == 2      \* longest candidate list of a swept field
MaxOtherWrites == 1  \* entries other processes add to the experiment directory

SleepSeconds == 1    \* time.sleep(1)

Values == 1..MaxVal

\* the dict keys of model_config, in insertion order
KeyOrder == <<"lr", "batch_size", "random_seed">>

Keys == {KeyOrder[j] : j \in 1..Len(KeyOrder)}

Scalar(v) == [isList |-> FALSE, val |-> <<v>>]

List(s) == [isList |-> TRUE, val |-> s]

SeqsUpTo(S, n) == UNION {[1..m -> S] : m \in 0..n}

\* every value a field of a sweep config can hold within the bounds
ConfigValues == {Scalar(v) : v \in Values} \cup {List(s) : s \in SeqsUpTo(Values, MaxListLen)}

AllConfigs == [Keys -> ConfigValues]

\* the sweep configs get_configs loads in the orchestration runs: a field is
\* a scalar or the candidate list <<1, ..., n>>
SweepValues == {Scalar(v) : v \in Values} \cup {List([j \in 1..n |-> j]) : n \in 0..MaxListLen}

LoadableConfigs == [Keys -> SweepValues]

DatasetConfigs == [{"random_seed"} -> Values]

\* ------------------------------------------------------ split_configs
\* isinstance(item, list)
IsList(item) == item.isList

\* lines 43-46: the keys holding a list, in dict order
SplitKeys(mc) == SelectSeq(KeyOrder, LAMBDA key : IsList(mc[key]))

\* lines 43-46: their candidate lists, in the same order
ProductItems(mc) == [j \in 1..Len(SplitKeys(mc)) |-> mc[SplitKeys(mc)[j]].val]

RECURSIVE Concat(_)
Concat(ss) == IF ss = <<>> THEN <<>> ELSE Head(ss) \o Concat(Tail(ss))

\* itertools.product(*lists): the tuples in lexicographic order, the first
\* list varying slowest; product() of no list is the one empty tuple
RECURSIVE Product(_)
Product(lists) ==
    IF lists = <<>> THEN << <<>> >>
    ELSE LET rest == Product(Tail(lists))
             first == Head(lists)
         IN  Concat([a \in 1..Len(first) |->
                        [b \in 1..Len(rest) |-> <<first[a]>> \o rest[b]]])

\* lines 49-51: model_config.copy() with every split key set to its item
NewModelConfig(mc, split_keys, items) ==
    [key \in DOMAIN mc |->
        IF \E j \in 1..Len(split_keys) : split_keys[j] = key
        THEN Scalar(items[CHOOSE j \in 1..Len(split_keys) : split_keys[j] = key])
        ELSE mc[key]]

SplitDropsLastTuple(mc, dc) ==
    LET tuples == Product(ProductItems(mc))
    IN  [t \in 1..(IF Len(tuples) > 1 THEN Len(tuples) - 1 ELSE Len(tuples)) |->
            <<NewModelConfig(mc, SplitKeys(mc), tuples[t]), dc>>]

SplitNothingWithoutLists(mc, dc) ==
    LET tuples == IF SplitKeys(mc) = <<>> THEN <<>> ELSE Product(ProductItems(mc))
    IN  [t \in 1..Len(tuples) |-> <<NewModelConfig(mc, SplitKeys(mc), tuples[t]), dc>>]

SplitFallsBackToInput(mc, dc) ==
    LET tuples == Product(ProductItems(mc))
    IN  IF tuples = <<>>
        THEN << <<mc, dc>> >>
        ELSE [t \in 1..Len(tuples) |-> <<NewModelConfig(mc, SplitKeys(mc), tuples[t]), dc>>]

\* lines 37-53
split_configs(mc, dc) ==
    LET tuples == Product(ProductItems(mc))
    IN  [t \in 1..Len(tuples) |-> <<NewModelConfig(mc, SplitKeys(mc), tuples[t]), dc>>]


\* ----------------------------------------------------- collaborators
\* create_models_dir(output_dir, name): the directory is named by the
\* current timestamp (1-second resolution) and the call raises
\* FileExistsError when a directory of that name exists
create_models_dir(dirs, now) ==
    [raises |-> now \in dirs, path |-> <<now>>, dirs |-> dirs \cup {now}]

\* RunContext.aml_step(func, creation_mode)(**kwargs): in creation mode the
\* kwargs are serialised to a new descriptor file whose path is returned and
\* func is not called; otherwise func runs now and its output path is returned
aml_step(creation_mode, existing, call) ==
    IF creation_mode
    THEN [executes |-> FALSE,
          kwargs_file |-> [kind |-> "kwargs_file", id |-> Cardinality(existing) + 1]]
    ELSE [executes |-> TRUE,
          kwargs_file |-> [kind |-> "output_path", id |-> call]]

RECURSIVE Digits(_)
Digits(n) == IF n < 10 THEN <<n>> ELSE Digits(n \div 10) \o <<n % 10>>

\* f"outputs{n}"
OutputDirName(n) == <<"outputs">> \o Digits(n)

\* pipeline.add_step(...): appends the step and returns the reference to
\* its output
add_step(graph, step) ==
    [graph |-> Append(graph, step),
     output |-> [step |-> Len(graph) + 1, output_dir |-> step.output_dir]]

\* os.path.join(models_dir, name)
Path(dir, name) == dir \o name

ScanEveryEntry(dir, entries) == {Path(dir, e.name) : e \in entries}

\* line 206: [f.path for f in os.scandir(models_dir) if f.is_dir()]
ScanSubdirs(dir, entries) == {Path(dir, e.name) : e \in {f \in entries : f.is_dir}}

\* ---------------------------------------------------------------- state
VARIABLES
    pc,                 \* the statement of run_experiment to execute next
    error,              \* the exception that left run_experiment, or "none"
    run_context,        \* [pipeline |-> "None" or the pipeline object]
    delete_kwargs_files,
    clock,              \* the timestamp create_models_dir would use now
    fs_dirs,            \* timestamps of the experiment directories that exist
    create_calls,       \* number of calls of create_models_dir
    models_dir,         \* <<>> until created, then the directory's path
    dir_entries,        \* the immediate entries of models_dir
    model_config,
    dataset_config,
    aml_tags,
    mlflow_tags,        \* the mlflow.set_tags calls that succeeded
    configs,
    train_step_outputs,
    kwargs_files,
    dispatched,         \* the kwargs_dict of every aml_step call for a run
    agg_kwargs,         \* the kwargs of the aml_step call for run_aggregation
    scans,              \* number of os.scandir(models_dir) calls
    steps,              \* the pipeline's step graph
    files,              \* ids of the descriptor files on disk
    removed,            \* the os.remove calls that succeeded, in order
    run_calls,          \* number of pipeline.run calls
    executed_runs,      \* run_single_seed_experiment executions, in order
    aggregations,       \* run_aggregation executions
    result              \* <<>> until run_experiment returns, then <<value>>

vars == <<pc, error, run_context, delete_kwargs_files, clock, fs_dirs, create_calls,
          models_dir, dir_entries, model_config, dataset_config, aml_tags, mlflow_tags,
          configs, train_step_outputs, kwargs_files, dispatched, agg_kwargs, scans,
          steps, files, removed, run_calls, executed_runs, aggregations, result>>

InvertedCreationMode == run_context.pipeline = "None"

\* lines 148-149: pipeline_creation_mode = pipeline is not None
pipeline_creation_mode == run_context.pipeline # "None"

RunAlwaysInline == FALSE

\* line 190: the creation_mode argument of the aml_step call for a run
RunCreationMode == pipeline_creation_mode

RunningDespiteError == pc # "done"

\* an exception that no handler catches ends run_experiment
Running == error = "none" /\ pc # "done"

\* the values every variable but the inputs has when run_experiment is entered
Entered ==
    /\ error = "none"
    /\ clock = 0
    /\ fs_dirs = {}
    /\ create_calls = 0
    /\ models_dir = <<>>
    /\ dir_entries = {}
    /\ aml_tags = <<>>
    /\ mlflow_tags = <<>>
    /\ configs = <<>>
    /\ train_step_outputs = <<>>
    /\ kwargs_files = <<>>
    /\ dispatched = <<>>
    /\ agg_kwargs = <<>>
    /\ scans = 0
    /\ steps = <<>>
    /\ files = {}
    /\ removed = <<>>
    /\ run_calls = 0
    /\ executed_runs = <<>>
    /\ aggregations = <<>>
    /\ result = <<>>

Init ==
    /\ pc = "get_configs"
    /\ run_context \in {[pipeline |-> "None"], [pipeline |-> "Pipeline"]}
    /\ delete_kwargs_files \in BOOLEAN
    /\ model_config = <<>>
    /\ dataset_config = <<>>
    /\ Entered

Raise(e) ==
    /\ error' = e
    /\ UNCHANGED <<pc, run_context, delete_kwargs_files, clock, fs_dirs, create_calls,
                   models_dir, dir_entries, model_config, dataset_config, aml_tags,
                   mlflow_tags, configs, train_step_outputs, kwargs_files, dispatched,
                   agg_kwargs, scans, steps, files, removed, run_calls, executed_runs,
                   aggregations, result>>

\* ------------------------------------------------------- run_experiment
GetConfigsAfterDirectory ==
    /\ Running /\ pc = "get_configs"
    /\ \/ /\ error' = "ConfigError"
          /\ create_calls' = create_calls + 1
          /\ fs_dirs' = fs_dirs \cup {clock}
          /\ models_dir' = <<clock>>
          /\ UNCHANGED <<pc, model_config, dataset_config>>
       \/ /\ \E mc \in LoadableConfigs, dc \in DatasetConfigs, given \in BOOLEAN, seed \in Values :
                /\ model_config' = IF given THEN [mc EXCEPT !["random_seed"] = Scalar(seed)] ELSE mc
                /\ dataset_config' = dc
          /\ pc' = "create_models_dir"
          /\ UNCHANGED <<error, fs_dirs, create_calls, models_dir>>
    /\ UNCHANGED <<run_context, delete_kwargs_files, clock, dir_entries, aml_tags,
                   mlflow_tags, configs, train_step_outputs, kwargs_files, dispatched,
                   agg_kwargs, scans, steps, files, removed, run_calls, executed_runs,
                   aggregations, result>>

\* lines 96-114: get_configs, then the random_seed override
GetConfigs ==
    /\ Running /\ pc = "get_configs"
    /\ \/ Raise("ConfigError")
       \/ /\ \E mc \in LoadableConfigs, dc \in DatasetConfigs, given \in BOOLEAN, seed \in Values :
                /\ model_config' = IF given THEN [mc EXCEPT !["random_seed"] = Scalar(seed)] ELSE mc
                /\ dataset_config' = dc
          /\ pc' = "create_models_dir"
          /\ UNCHANGED <<error, run_context, delete_kwargs_files, clock, fs_dirs,
                         create_calls, models_dir, dir_entries, aml_tags, mlflow_tags,
                         configs, train_step_outputs, kwargs_files, dispatched, agg_kwargs,
                         scans, steps, files, removed, run_calls, executed_runs,
                         aggregations, result>>

\* lines 123-141, after a create_models_dir call that returned
DirCreated(made) ==
    /\ fs_dirs' = made.dirs
    /\ models_dir' = made.path
    /\ aml_tags' = [model_config |-> model_config, dataset_config |-> dataset_config]
    /\ pc' = "set_tags"
    /\ UNCHANGED <<error, clock>>

CreateModelsDirNoRetry ==
    /\ Running /\ pc = "create_models_dir"
    /\ create_calls' = create_calls + 1
    /\ LET made == create_models_dir(fs_dirs, clock)
       IN  IF made.raises
           THEN /\ error' = "FileExistsError"
                /\ UNCHANGED <<pc, clock, fs_dirs, models_dir, aml_tags>>
           ELSE DirCreated(made)
    /\ UNCHANGED <<run_context, delete_kwargs_files, dir_entries, model_config,
                   dataset_config, mlflow_tags, configs, train_step_outputs, kwargs_files,
                   dispatched, agg_kwargs, scans, steps, files, removed, run_calls,
                   executed_runs, aggregations, result>>

\* lines 117-121: the first create_models_dir call; on FileExistsError
\* time.sleep(1) and go to the retry
CreateModelsDir ==
    /\ Running /\ pc = "create_models_dir"
    /\ create_calls' = create_calls + 1
    /\ LET made == create_models_dir(fs_dirs, clock)
       IN  IF made.raises
           THEN /\ clock' = clock + SleepSeconds
                /\ pc' = "retry_create_models_dir"
                /\ UNCHANGED <<error, fs_dirs, models_dir, aml_tags>>
           ELSE DirCreated(made)
    /\ UNCHANGED <<run_context, delete_kwargs_files, dir_entries, model_config,
                   dataset_config, mlflow_tags, configs, train_step_outputs, kwargs_files,
                   dispatched, agg_kwargs, scans, steps, files, removed, run_calls,
                   executed_runs, aggregations, result>>

\* line 122: the second create_models_dir call, outside any try
RetryCreateModelsDir ==
    /\ Running /\ pc = "retry_create_models_dir"
    /\ create_calls' = create_calls + 1
    /\ LET made == create_models_dir(fs_dirs, clock)
       IN  IF made.raises
           THEN /\ error' = "FileExistsError"
                /\ UNCHANGED <<pc, clock, fs_dirs, models_dir, aml_tags>>
           ELSE DirCreated(made)
    /\ UNCHANGED <<run_context, delete_kwargs_files, dir_entries, model_config,
                   dataset_config, mlflow_tags, configs, train_step_outputs, kwargs_files,
                   dispatched, agg_kwargs, scans, steps, files, removed, run_calls,
                   executed_runs, aggregations, result>>

\* another experiment started in the same second takes the timestamp's name
ConcurrentExperiment ==
    /\ Running /\ pc \in {"create_models_dir", "retry_create_models_dir"}
    /\ clock \notin fs_dirs
    /\ fs_dirs' = fs_dirs \cup {clock}
    /\ UNCHANGED <<pc, error, run_context, delete_kwargs_files, clock, create_calls,
                   models_dir, dir_entries, model_config, dataset_config, aml_tags,
                   mlflow_tags, configs, train_step_outputs, kwargs_files, dispatched,
                   agg_kwargs, scans, steps, files, removed, run_calls, executed_runs,
                   aggregations, result>>

\* line 142: mlflow.set_tags(aml_tags)
SetTags ==
    /\ Running /\ pc = "set_tags"
    /\ \/ Raise("TagError")
       \/ /\ mlflow_tags' = Append(mlflow_tags, "aml_tags")
          /\ pc' = "split_configs"
          /\ UNCHANGED <<error, run_context, delete_kwargs_files, clock, fs_dirs,
                         create_calls, models_dir, dir_entries, model_config,
                         dataset_config, aml_tags, configs, train_step_outputs,
                         kwargs_files, dispatched, agg_kwargs, scans, steps, files,
                         removed, run_calls, executed_runs, aggregations, result>>

\* line 145: configs = split_configs(model_config, dataset_config)
SplitCallWithoutCopy(mc, dc) ==
    LET tuples == Product(ProductItems(mc))
        shared == IF tuples = <<>>
                  THEN mc
                  ELSE NewModelConfig(mc, SplitKeys(mc), tuples[Len(tuples)])
    IN  [model_config |-> shared,
         dataset_config |-> dc,
         configs |-> [t \in 1..Len(tuples) |-> <<shared, dc>>]]

\* lines 37-53 seen from the caller: the list returned and the two argument
\* dicts after the call. Every tuple is written into a model_config.copy()
\* (line 48) and dataset_config is only stored in the pairs (line 51), so
\* both arguments come back as they went in.
SplitCall(mc, dc) ==
    [model_config |-> mc,
     dataset_config |-> dc,
     configs |-> split_configs(mc, dc)]

ExpandSweep ==
    /\ Running /\ pc = "split_configs"
    /\ LET call == SplitCall(model_config, dataset_config)
       IN  /\ configs' = call.configs
           /\ model_config' = call.model_config
           /\ dataset_config' = call.dataset_config
    /\ pc' = "set_num_samples"
    /\ UNCHANGED <<error, run_context, delete_kwargs_files, clock, fs_dirs, create_calls,
                   models_dir, dir_entries, aml_tags,
                   mlflow_tags, train_step_outputs, kwargs_files, dispatched, agg_kwargs,
                   scans, steps, files, removed, run_calls, executed_runs, aggregations,
                   result>>

\* lines 146-153: mlflow.set_tags({"num_samples": len(configs)}) and the
\* empty train_step_outputs and kwargs_files
SetNumSamples ==
    /\ Running /\ pc = "set_num_samples"
    /\ \/ Raise("TagError")
       \/ /\ mlflow_tags' = Append(mlflow_tags, "num_samples")
          /\ train_step_outputs' = <<>>
          /\ kwargs_files' = <<>>
          /\ pc' = "dispatch"
          /\ UNCHANGED <<error, run_context, delete_kwargs_files, clock, fs_dirs,
                         create_calls, models_dir, dir_entries, model_config,
                         dataset_config, aml_tags, configs, dispatched, agg_kwargs, scans,
                         steps, files, removed, run_calls, executed_runs, aggregations,
                         result>>

KwargsDictDatasetSeedForModel(mc, dc) ==
    [dataset_config |-> dc,
     dataset_seed |-> dc["random_seed"],
     model_config |-> mc,
     output_dir |-> models_dir,
     model_seed |-> Scalar(dc["random_seed"])]

\* lines 156-186: kwargs_dict of the loop's current (model_config, dataset_config)
KwargsDict(mc, dc) ==
    [dataset_config |-> dc,
     dataset_seed |-> dc["random_seed"],
     model_config |-> mc,
     output_dir |-> models_dir,
     model_seed |-> mc["random_seed"]]

RunStepFixedOutput(kwargs_file) ==
    [step |-> "single_seed_experiment",
     kwargs |-> kwargs_file,
     input_dirs |-> <<>>,
     inputs |-> <<>>,
     output_dir |-> OutputDirName(0)]

\* lines 195-200: the run step of one dispatch
RunStep(kwargs_file) ==
    [step |-> "single_seed_experiment",
     kwargs |-> kwargs_file,
     input_dirs |-> <<>>,
     inputs |-> <<>>,
     output_dir |-> OutputDirName(Len(train_step_outputs))]

\* the subdirectory a run writes under its output_dir
RunOutput(call) == [name |-> <<"run", call>>, is_dir |-> TRUE]

RegisterRunAndAggregation(graph, kwargs_file) ==
    LET run == add_step(graph, RunStep(kwargs_file))
        outputs == Append(train_step_outputs, run.output)
    IN  [graph |-> Append(run.graph, [step |-> "aggregation",
                                      kwargs |-> kwargs_file,
                                      input_dirs |-> outputs,
                                      inputs |-> outputs,
                                      output_dir |-> <<>>]),
         output |-> run.output]

\* lines 194-200: the one add_step call of a loop iteration
RegisterRunStep(graph, kwargs_file) == add_step(graph, RunStep(kwargs_file))

\* lines 155-201: one iteration of the loop over configs
DispatchRun ==
    /\ Running /\ pc = "dispatch"
    /\ Len(kwargs_files) < Len(configs)
    /\ LET call == Len(kwargs_files) + 1
           mc == configs[call][1]
           dc == configs[call][2]
           kwargs_dict == KwargsDict(mc, dc)
           sent == aml_step(RunCreationMode, files, call)
           added == RegisterRunStep(steps, sent.kwargs_file)
           Done == /\ model_config' = mc
                   /\ dataset_config' = dc
                   /\ dispatched' = Append(dispatched, kwargs_dict)
                   /\ kwargs_files' = Append(kwargs_files, sent.kwargs_file)
                   /\ UNCHANGED <<error, pc>>
       IN  IF sent.executes
           THEN \/ /\ error' = "RunError"
                   /\ model_config' = mc
                   /\ dataset_config' = dc
                   /\ dispatched' = Append(dispatched, kwargs_dict)
                   /\ UNCHANGED <<pc, kwargs_files, executed_runs, dir_entries, files,
                                  steps, train_step_outputs>>
                \/ /\ Done
                   /\ executed_runs' = Append(executed_runs, kwargs_dict)
                   /\ dir_entries' = dir_entries \cup {RunOutput(call)}
                   /\ IF pipeline_creation_mode
                      THEN /\ steps' = added.graph
                           /\ train_step_outputs' = Append(train_step_outputs, added.output)
                      ELSE UNCHANGED <<steps, train_step_outputs>>
                   /\ UNCHANGED files
           ELSE /\ Done
                /\ files' = files \cup {sent.kwargs_file.id}
                /\ IF pipeline_creation_mode
                   THEN /\ steps' = added.graph
                        /\ train_step_outputs' = Append(train_step_outputs, added.output)
                   ELSE UNCHANGED <<steps, train_step_outputs>>
                /\ UNCHANGED <<executed_runs, dir_entries>>
    /\ UNCHANGED <<run_context, delete_kwargs_files, clock, fs_dirs, create_calls,
                   models_dir, aml_tags, mlflow_tags, configs, agg_kwargs, scans, removed,
                   run_calls, aggregations, result>>

AggregationStepDropsFirstInput(kwargs_file) ==
    [step |-> "aggregation",
     kwargs |-> kwargs_file,
     input_dirs |-> train_step_outputs,
     inputs |-> IF train_step_outputs = <<>> THEN <<>> ELSE Tail(train_step_outputs),
     output_dir |-> <<>>]

\* lines 217-222: the aggregation step
AggregationStep(kwargs_file) ==
    [step |-> "aggregation",
     kwargs |-> kwargs_file,
     input_dirs |-> train_step_outputs,
     inputs |-> train_step_outputs,
     output_dir |-> <<>>]

LoopLeftEarly == TRUE

\* line 155: the for loop has gone through every element of configs
LoopExhausted == Len(kwargs_files) = Len(configs)

\* lines 206-214: scan models_dir, dispatch run_aggregation; the loop over
\* configs is exhausted
DispatchAggregation ==
    /\ Running /\ pc = "dispatch"
    /\ LoopExhausted
    /\ scans' = scans + 1
    /\ LET input_dirs == ScanSubdirs(models_dir, dir_entries)
           kwargs == [input_dirs |-> input_dirs, output_dir |-> models_dir]
           sent == aml_step(pipeline_creation_mode, files, Len(kwargs_files) + 1)
           Done == /\ kwargs_files' = Append(kwargs_files, sent.kwargs_file)
                   /\ pc' = IF pipeline_creation_mode THEN "add_aggregation_step" ELSE "return"
                   /\ error' = error
       IN  /\ agg_kwargs' = Append(agg_kwargs, kwargs)
           /\ IF sent.executes
              THEN \/ /\ error' = "AggregationError"
                      /\ UNCHANGED <<pc, kwargs_files, aggregations, files>>
                   \/ /\ Done
                      /\ aggregations' = Append(aggregations, kwargs)
                      /\ UNCHANGED files
              ELSE /\ Done
                   /\ files' = files \cup {sent.kwargs_file.id}
                   /\ UNCHANGED aggregations
    /\ UNCHANGED <<run_context, delete_kwargs_files, clock, fs_dirs, create_calls,
                   models_dir, dir_entries, model_config, dataset_config, aml_tags,
                   mlflow_tags, configs, train_step_outputs, dispatched, steps, removed,
                   run_calls, executed_runs, result>>

\* lines 216-222: pipeline.add_step for the aggregation
AddAggregationStep ==
    /\ Running /\ pc = "add_aggregation_step"
    /\ steps' = add_step(steps, AggregationStep(kwargs_files[Len(kwargs_files)])).graph
    /\ pc' = "pipeline_run"
    /\ UNCHANGED <<error, run_context, delete_kwargs_files, clock, fs_dirs, create_calls,
                   models_dir, dir_entries, model_config, dataset_config, aml_tags,
                   mlflow_tags, configs, train_step_outputs, kwargs_files, dispatched,
                   agg_kwargs, scans, files, removed, run_calls, executed_runs,
                   aggregations, result>>

Range(s) == {s[j] : j \in 1..Len(s)}

\* what the scheduler executes for a graph: every run step with the kwargs
\* of its descriptor file, then every aggregation step on the step outputs
\* given as --input_dirs
ExecuteGraph(graph) ==
    LET run_steps == SelectSeq(graph, LAMBDA st : st.step = "single_seed_experiment")
        agg_steps == SelectSeq(graph, LAMBDA st : st.step = "aggregation")
    IN  [runs |-> [k \in 1..Len(run_steps) |-> dispatched[run_steps[k].kwargs.id]],
         aggregations |-> [k \in 1..Len(agg_steps) |->
                              [input_dirs |-> Range(agg_steps[k].input_dirs),
                               output_dir |-> models_dir]]]

CleanupSkipped == "return"

CleanupAlways == "cleanup"

\* line 225: if delete_kwargs_files, the loop over kwargs_files follows
AfterPipelineRun == IF delete_kwargs_files THEN "cleanup" ELSE "return"

\* line 223: pipeline.run(aml_tags) executes the graph and blocks until it
\* has finished or failed
PipelineRun ==
    /\ Running /\ pc = "pipeline_run"
    /\ run_calls' = run_calls + 1
    /\ LET done == ExecuteGraph(steps)
       IN  \/ /\ executed_runs' = executed_runs \o done.runs
              /\ aggregations' = aggregations \o done.aggregations
              /\ pc' = AfterPipelineRun
              /\ error' = error
           \/ \E k \in 0..Len(done.runs) :
                 /\ executed_runs' = executed_runs \o SubSeq(done.runs, 1, k)
                 /\ error' = "PipelineError"
                 /\ UNCHANGED <<pc, aggregations>>
    /\ UNCHANGED <<run_context, delete_kwargs_files, clock, fs_dirs, create_calls,
                   models_dir, dir_entries, model_config, dataset_config, aml_tags,
                   mlflow_tags, configs, train_step_outputs, kwargs_files, dispatched,
                   agg_kwargs, scans, steps, files, removed, result>>

\* lines 225-227: os.remove of the next entry of kwargs_files
RemoveKwargsFile ==
    /\ Running /\ pc = "cleanup"
    /\ LET f == kwargs_files[Len(removed) + 1]
       IN  \/ /\ f.kind = "kwargs_file" /\ f.id \in files
              /\ files' = files \ {f.id}
              /\ removed' = Append(removed, f)
              /\ pc' = IF Len(removed) + 1 = Len(kwargs_files) THEN "return" ELSE "cleanup"
              /\ error' = error
           \/ /\ error' = "OSError"
              /\ UNCHANGED <<pc, files, removed>>
    /\ UNCHANGED <<run_context, delete_kwargs_files, clock, fs_dirs, create_calls,
                   models_dir, dir_entries, model_config, dataset_config, aml_tags,
                   mlflow_tags, configs, train_step_outputs, kwargs_files, dispatched,
                   agg_kwargs, scans, steps, run_calls, executed_runs, aggregations,
                   result>>

\* line 230: return models_dir
Return ==
    /\ Running /\ pc = "return"
    /\ result' = <<models_dir>>
    /\ pc' = "done"
    /\ UNCHANGED <<error, run_context, delete_kwargs_files, clock, fs_dirs, create_calls,
                   models_dir, dir_entries, model_config, dataset_config, aml_tags,
                   mlflow_tags, configs, train_step_outputs, kwargs_files, dispatched,
                   agg_kwargs, scans, steps, files, removed, run_calls, executed_runs,
                   aggregations>>

OtherEntries == {e \in dir_entries : e.name[1] = "other"}

\* another process adds a file or a directory to the experiment directory
\* while the runs are dispatched
ConcurrentWrite ==
    /\ Running /\ pc = "dispatch"
    /\ Cardinality(OtherEntries) < MaxOtherWrites
    /\ \E d \in BOOLEAN :
          dir_entries' = dir_entries \cup
              {[name |-> <<"other", Cardinality(OtherEntries) + 1>>, is_dir |-> d]}
    /\ UNCHANGED <<pc, error, run_context, delete_kwargs_files, clock, fs_dirs,
                   create_calls, models_dir, model_config, dataset_config, aml_tags,
                   mlflow_tags, configs, train_step_outputs, kwargs_files, dispatched,
                   agg_kwargs, scans, steps, files, removed, run_calls, executed_runs,
                   aggregations, result>>

Next ==
    \/ GetConfigs
    \/ CreateModelsDir
    \/ RetryCreateModelsDir
    \/ ConcurrentExperiment
    \/ SetTags
    \/ ExpandSweep
    \/ SetNumSamples
    \/ DispatchRun
    \/ ConcurrentWrite
    \/ DispatchAggregation
    \/ AddAggregationStep
    \/ PipelineRun
    \/ RemoveKwargsFile
    \/ Return

Spec == Init /\ [][Next]_vars

\* split_configs alone, on every sweep config within the bounds
SplitInit ==
    /\ pc = "split_configs"
    /\ run_context = [pipeline |-> "None"]
    /\ delete_kwargs_files = TRUE
    /\ model_config \in AllConfigs
    /\ dataset_config \in DatasetConfigs
    /\ Entered

SplitSpec == SplitInit /\ [][ExpandSweep]_vars

\* ------------------------------------------------------------ properties
\* the mode of the invocation: run_context.pipeline is None, or is a pipeline
LocalMode == run_context.pipeline = "None"

PipelineMode == run_context.pipeline # "None"

\* the fields of a config that hold a list
ListFields(mc) == {key \in DOMAIN mc : mc[key].isList}

RECURSIVE SizeProduct(_, _)
SizeProduct(mc, fields) ==
    IF fields = {} THEN 1
    ELSE LET key == CHOOSE k \in fields : TRUE
         IN  Len(mc[key].val) * SizeProduct(mc, fields \ {key})

\* the combinations of candidate values: one candidate per list field
Combinations(mc) ==
    {c \in [ListFields(mc) -> Values] : \A key \in ListFields(mc) : c[key] \in Range(mc[key].val)}

\* the pairs of configs whose model config holds combination c
PairsHolding(c) ==
    {t \in 1..Len(configs) : \A key \in DOMAIN c : configs[t][1][key] = Scalar(c[key])}

\* number of positions of list s holding v
Multiplicity(v, s) == Cardinality({j \in 1..Len(s) : s[j] = v})

RECURSIVE Occurrences(_, _, _)
Occurrences(mc, c, fields) ==
    IF fields = {} THEN 1
    ELSE LET key == CHOOSE k \in fields : TRUE
         IN  Multiplicity(c[key], mc[key].val) * Occurrences(mc, c, fields \ {key})

\* split_configs has returned (SplitSpec: model_config is still its argument)
SplitReturned == pc = "set_num_samples"

\* count and shape of the pairs: n1*...*nk pairs, non-list fields kept,
\* list fields replaced by one of their candidates, dataset_config passed on
PairsWellFormed ==
    /\ Len(configs) = SizeProduct(model_config, ListFields(model_config))
    /\ \A t \in 1..Len(configs) :
          /\ DOMAIN configs[t][1] = DOMAIN model_config
          /\ \A key \in DOMAIN model_config :
                IF model_config[key].isList
                THEN /\ ~configs[t][1][key].isList
                     /\ configs[t][1][key].val[1] \in Range(model_config[key].val)
                ELSE configs[t][1][key] = model_config[key]
          /\ configs[t][2] = dataset_config

\* C1 as stated: split_configs returns n1*...*nk pairs, each keeping the
\* non-list fields and holding one candidate per list field, and every
\* combination of candidate values appears in exactly one pair.
C1_EveryCombinationExactlyOnce ==
    SplitReturned =>
        /\ PairsWellFormed
        /\ \A c \in Combinations(model_config) : Cardinality(PairsHolding(c)) = 1

\* C1 amended: split_configs returns n1*...*nk pairs, each keeping the
\* non-list fields and holding one candidate per list field, and every
\* combination of candidate values appears in as many pairs as there are
\* combinations of list positions holding it (the product of the
\* multiplicities of its values in their candidate lists): exactly one pair
\* when no candidate list repeats a value.
C1_EveryCombinationOncePerPosition ==
    SplitReturned =>
        /\ PairsWellFormed
        /\ \A c \in Combinations(model_config) :
              Cardinality(PairsHolding(c)) =
                  Occurrences(model_config, c, ListFields(model_config))

\* two fields swept over two candidates each, one of the lists repeating a
\* value, and a non-list field: four pairs
C1_Witness ==
    /\ SplitReturned
    /\ Len(configs) = 4
    /\ Cardinality(ListFields(model_config)) = 2
    /\ \E key \in ListFields(model_config) :
          model_config[key].val[1] = model_config[key].val[2]
    /\ \E key \in ListFields(model_config) :
          model_config[key].val[1] # model_config[key].val[2]

\* positions of the run steps in the step graph
RunStepIndices == {k \in 1..Len(steps) : steps[k].step = "single_seed_experiment"}

\* the output reference add_step returned for step k
OutputOf(k) == [step |-> k, output_dir |-> steps[k].output_dir]

\* the aggregation step has been registered
AggregationRegistered ==
    PipelineMode /\ pc \in {"pipeline_run", "cleanup", "return", "done"}

\* C2: in pipeline mode, once the aggregation step is registered, its inputs=
\* are exactly the output references add_step returned for the run steps of
\* this invocation, one run step per config: none omitted, none added.
C2_AggregationInputsAreRunOutputs ==
    AggregationRegistered =>
        LET agg == steps[Len(steps)]
        IN  /\ agg.step = "aggregation"
            /\ Cardinality(RunStepIndices) = Len(configs)
            /\ Range(agg.inputs) = {OutputOf(k) : k \in RunStepIndices}
            /\ Range(agg.input_dirs) \subseteq Range(agg.inputs)

\* four run steps and the aggregation step registered
C2_Witness ==
    /\ AggregationRegistered
    /\ Cardinality(RunStepIndices) = 4
    /\ Len(steps[Len(steps)].inputs) = 4

\* C3: no two run steps of one invocation are registered with the same
\* output_dir name.
C3_RunStepOutputDirsDistinct ==
    \A j \in RunStepIndices : \A k \in RunStepIndices :
        j # k => steps[j].output_dir # steps[k].output_dir

\* eight run steps registered
C3_Witness == Cardinality(RunStepIndices) = 8

\* C4: a FileExistsError of the first create_models_dir call is followed by
\* one retry after time.sleep(1); the experiment goes on with the retry's
\* directory, or the retry's FileExistsError leaves run_experiment with
\* nothing dispatched; create_models_dir is never called a third time.
C4_RetryOnceThenPropagate ==
    /\ create_calls <= 2
    /\ clock \in {0, SleepSeconds}
    /\ clock = SleepSeconds <=>
          \/ pc = "retry_create_models_dir" /\ create_calls = 1
          \/ create_calls = 2
    /\ create_calls = 2 =>
          \/ /\ error = "FileExistsError"
             /\ pc = "retry_create_models_dir"
          \/ /\ models_dir = <<SleepSeconds>>
             /\ SleepSeconds \in fs_dirs
             /\ pc \notin {"get_configs", "create_models_dir", "retry_create_models_dir"}
    /\ error = "FileExistsError" =>
          /\ create_calls = 2
          /\ models_dir = <<>>
          /\ dispatched = <<>> /\ executed_runs = <<>> /\ steps = <<>>
          /\ agg_kwargs = <<>> /\ result = <<>>
    /\ models_dir # <<>> => models_dir = <<clock>>

\* the first call collided, the retry succeeded and the experiment completed
\* in the retry's directory
C4_Witness ==
    /\ create_calls = 2
    /\ pc = "done"
    /\ result = <<models_dir>>
    /\ models_dir = <<SleepSeconds>>
    /\ Len(executed_runs) = 2

\* the descriptor files of kwargs_files, as a set
TrackedFiles == Range(kwargs_files)

\* C5: a completed pipeline-mode invocation with delete_kwargs_files set has
\* registered N run steps and then one aggregation step, has called
\* pipeline.run once, and has then removed the N+1 descriptor files, each
\* once; no file is removed before pipeline.run.
C5_StepsRunAndCleanupCounts ==
    /\ (PipelineMode /\ delete_kwargs_files /\ pc = "done") =>
          /\ Len(steps) = Len(configs) + 1
          /\ \A k \in 1..Len(configs) : steps[k].step = "single_seed_experiment"
          /\ steps[Len(steps)].step = "aggregation"
          /\ run_calls = 1
          /\ Len(removed) = Len(configs) + 1
          /\ Cardinality(Range(removed)) = Len(removed)
          /\ Range(removed) = TrackedFiles
          /\ \A f \in Range(removed) : f.kind = "kwargs_file"
          /\ {steps[k].kwargs : k \in 1..Len(steps)} = Range(removed)
          /\ files = {}
    /\ run_calls = 0 => removed = <<>>

\* four configs: five steps, five files removed
C5_Witness ==
    /\ PipelineMode /\ delete_kwargs_files /\ pc = "done"
    /\ Len(configs) = 4
    /\ Len(steps) = 5
    /\ Len(removed) = 5

\* C6 as stated: in pipeline mode run_experiment never lists the experiment
\* output directory and hands no scanned directory list to the aggregation
\* dispatch; the aggregation's input locations are the step outputs.
C6_NoScanInPipelineMode ==
    PipelineMode =>
        /\ scans = 0
        /\ AggregationRegistered =>
              steps[Len(steps)].input_dirs = train_step_outputs

\* the immediate subdirectories of the experiment directory, as paths
Subdirectories == {models_dir \o e.name : e \in {f \in dir_entries : f.is_dir}}

\* the aggregation dispatch of a local invocation happens in this step
LocalAggregationDispatch ==
    LocalMode /\ agg_kwargs = <<>> /\ agg_kwargs' # <<>>

\* C7: in local mode the aggregation is dispatched after all N runs have run,
\* with input_dirs the set of immediate subdirectories models_dir has at that
\* moment (every run's output among them) and with output_dir models_dir.
C7_LocalInputsAreSubdirectories ==
    [][LocalAggregationDispatch =>
          /\ Len(executed_runs) = Len(configs)
          /\ \A call \in 1..Len(configs) : models_dir \o <<"run", call>> \in Subdirectories
          /\ Len(agg_kwargs') = 1
          /\ agg_kwargs'[1].input_dirs = Subdirectories
          /\ agg_kwargs'[1].output_dir = models_dir
          /\ error' = "none" => aggregations' = agg_kwargs']_vars

\* a local aggregation over two run directories while the experiment
\* directory also holds a plain file of another process
C7_Witness ==
    /\ LocalMode
    /\ Len(aggregations) = 1
    /\ Len(configs) = 2
    /\ Cardinality(aggregations[1].input_dirs) = 2
    /\ \E e \in dir_entries : ~e.is_dir

\* position of a statement in run_experiment
PcRank(p) ==
    CASE p = "get_configs" -> 1
      [] p = "create_models_dir" -> 2
      [] p = "retry_create_models_dir" -> 3
      [] p = "set_tags" -> 4
      [] p = "split_configs" -> 5
      [] p = "set_num_samples" -> 6
      [] p = "dispatch" -> 7
      [] p = "add_aggregation_step" -> 8
      [] p = "pipeline_run" -> 9
      [] p = "cleanup" -> 10
      [] p = "return" -> 11
      [] p = "done" -> 12

\* what has happened by the time each stage's events appear
StagesInOrder ==
    /\ dispatched # <<>> =>
          /\ models_dir # <<>>
          /\ mlflow_tags = <<"aml_tags", "num_samples">>
          /\ configs # <<>>
    /\ agg_kwargs # <<>> =>
          /\ models_dir # <<>>
          /\ mlflow_tags = <<"aml_tags", "num_samples">>
          /\ Len(dispatched) = Len(configs)
          /\ PipelineMode => Cardinality(RunStepIndices) = Len(configs)
          /\ LocalMode => Len(executed_runs) = Len(configs)
    /\ \A k \in 1..Len(steps) : steps[k].step = "aggregation" =>
          /\ k = Len(configs) + 1
          /\ agg_kwargs # <<>>
    /\ run_calls > 0 =>
          /\ run_calls = 1
          /\ Len(steps) = Len(configs) + 1
          /\ steps[Len(steps)].step = "aggregation"
    /\ removed # <<>> =>
          /\ run_calls = 1
          /\ pc \in {"cleanup", "return", "done"}
          /\ Len(aggregations) = 1
    /\ LocalMode => run_calls = 0 /\ removed = <<>>
    /\ pc = "done" =>
          /\ error = "none"
          /\ Len(agg_kwargs) = 1
          /\ PipelineMode => run_calls = 1
          /\ (PipelineMode /\ delete_kwargs_files) =>
                Len(removed) = Len(kwargs_files)

C9_LocalModeHasNoPipelineEffects ==
    LocalMode =>
        /\ steps = <<>>
        /\ train_step_outputs = <<>>
        /\ run_calls = 0
        /\ files = {}
        /\ removed = <<>>
        /\ \A f \in Range(kwargs_files) : f.kind # "kwargs_file"
        /\ Len(executed_runs) = Len(kwargs_files) - Len(aggregations)
        /\ \A call \in 1..Len(executed_runs) :
              /\ executed_runs[call] = dispatched[call]
              /\ [name |-> <<"run", call>>, is_dir |-> TRUE] \in dir_entries
        /\ pc \in {"return", "done"} => aggregations = agg_kwargs /\ Len(aggregations) = 1

\* a completed local invocation of four runs
C9_Witness ==
    /\ LocalMode
    /\ pc = "done"
    /\ Len(executed_runs) = 4
    /\ Len(aggregations) = 1

\* C10: in pipeline mode nothing executes before pipeline.run is called: an
\* invocation that has not called it, failed or not, has executed no run and
\* no aggregation.
C10_NothingExecutesBeforeTrigger ==
    (PipelineMode /\ run_calls = 0) =>
        /\ executed_runs = <<>>
        /\ aggregations = <<>>
        /\ \A e \in dir_entries : e.name[1] # "run"

\* the whole graph is built and pipeline.run is the next statement
C10_Witness ==
    /\ PipelineMode
    /\ pc = "pipeline_run"
    /\ run_calls = 0
    /\ Len(steps) = 5
    /\ Len(dispatched) = 4

\* C11 as stated: a failing os.remove of a descriptor file is not fatal: the
\* remaining files are still removed and run_experiment returns models_dir,
\* so no invocation ends in the cleanup loop with an exception.
C11_CleanupFailureNotFatal ==
    pc = "cleanup" => error = "none"

\* what holds of a local invocation's runs in every state
LocalRunsSequential ==
    LocalMode =>
        /\ Len(dispatched) - Len(executed_runs) \in {0, 1}
        /\ executed_runs = SubSeq(dispatched, 1, Len(executed_runs))
        /\ Len(dispatched) > Len(executed_runs) <=> error = "RunError"
        /\ \A call \in 1..Len(executed_runs) :
              [name |-> <<"run", call>>, is_dir |-> TRUE] \in dir_entries
        /\ error = "RunError" =>
              /\ pc = "dispatch"
              /\ Len(dispatched) <= Len(configs)
              /\ Len(kwargs_files) = Len(dispatched) - 1
              /\ agg_kwargs = <<>> /\ aggregations = <<>> /\ scans = 0
              /\ result = <<>>

\* C12: in local mode the runs execute one after the other, each complete
\* before the next is dispatched; when the i-th run fails the error leaves
\* run_experiment at once: runs 1..i-1 have completed, no later run is
\* dispatched and the aggregation is never invoked.
C12_LocalRunFailureAborts ==
    /\ []LocalRunsSequential
    /\ [][error # "RunError"]_vars

\* the third of four local runs failed
C12_Witness ==
    /\ LocalMode
    /\ error = "RunError"
    /\ Len(configs) = 4
    /\ Len(dispatched) = 3
    /\ Len(executed_runs) = 2

\* C13: when get_configs fails the error leaves run_experiment without a
\* retry and before any other effect: no directory, no tags, no dispatch, no
\* step, no trigger.
C13_ConfigErrorBeforeAnyEffect ==
    /\ [](error = "ConfigError" =>
            /\ pc = "get_configs"
            /\ create_calls = 0 /\ models_dir = <<>> /\ fs_dirs = {}
            /\ mlflow_tags = <<>> /\ aml_tags = <<>>
            /\ configs = <<>> /\ dispatched = <<>> /\ executed_runs = <<>>
            /\ agg_kwargs = <<>> /\ aggregations = <<>>
            /\ steps = <<>> /\ files = {} /\ run_calls = 0
            /\ result = <<>>)
    /\ [][error # "ConfigError"]_vars

\* get_configs has failed in a pipeline-mode invocation
C13_Witness ==
    /\ error = "ConfigError"
    /\ PipelineMode

\* C14: in the step graph every declared dependency of a step is the output
\* of a step registered strictly before it, and the aggregation step is the
\* last step: no add_step call follows it.
C14_NoForwardReferenceAggregationLast ==
    /\ [](\A k \in 1..Len(steps) :
             /\ \A r \in Range(steps[k].inputs) : r.step < k /\ r = OutputOf(r.step)
             /\ steps[k].step = "aggregation" => k = Len(steps))
    /\ [][(steps # <<>> /\ steps[Len(steps)].step = "aggregation") => steps' = steps]_vars

\* a completed pipeline invocation: two run steps, then the aggregation step
\* depending on both
C14_Witness ==
    /\ PipelineMode /\ pc = "done"
    /\ Len(steps) = 3
    /\ Len(steps[3].inputs) = 2

\* line 145 has been executed; aml_tags holds the model_config and
\* dataset_config objects that were passed to split_configs
SweepExpanded == PcRank(pc) >= PcRank("set_num_samples")

\* the loop over configs has been left normally
LoopLeft == agg_kwargs # <<>>

\* C15: a model_config without a list-valued field expands to exactly one
\* pair, the input model_config with the input dataset_config, and
\* run_experiment dispatches exactly one run.
C15_NoListFieldOnePair ==
    (SweepExpanded /\ ListFields(aml_tags.model_config) = {}) =>
        /\ configs = << <<aml_tags.model_config, aml_tags.dataset_config>> >>
        /\ Len(dispatched) <= 1
        /\ dispatched # <<>> => dispatched[1].model_config = aml_tags.model_config
        /\ LoopLeft => Len(dispatched) = 1
        /\ PipelineMode /\ LoopLeft => Cardinality(RunStepIndices) = 1
        /\ pc = "done" => Len(executed_runs) = 1

\* a completed local invocation on a config without list fields
C15_Witness ==
    /\ LocalMode /\ pc = "done"
    /\ ListFields(aml_tags.model_config) = {}
    /\ Len(executed_runs) = 1
    /\ Len(aggregations) = 1

\* the list fields of the sweep config that hold the empty list
EmptyListFields == {key \in ListFields(aml_tags.model_config) : aml_tags.model_config[key].val = <<>>}

\* C16: a model_config with an empty list in any list-valued field expands
\* to zero pairs, whatever the other lists hold, without raising, and
\* run_experiment dispatches zero runs.
C16_EmptyListZeroPairs ==
    (SweepExpanded /\ EmptyListFields # {}) =>
        /\ configs = <<>>
        /\ dispatched = <<>>
        /\ executed_runs = <<>>
        /\ RunStepIndices = {}
        /\ error \in {"none", "TagError", "AggregationError", "PipelineError", "OSError"}
        /\ pc = "done" /\ PipelineMode => Len(steps) = 1

\* a completed invocation on a sweep with one empty list and one list of two
C16_Witness ==
    /\ pc = "done"
    /\ EmptyListFields # {}
    /\ \E key \in ListFields(aml_tags.model_config) : Len(aml_tags.model_config[key].val) = 2
    /\ Len(agg_kwargs) = 1

\* C17 as stated: a failing mlflow.set_tags does not abort the experiment:
\* the sweep is still expanded, every run and the aggregation dispatched and
\* models_dir returned, so no invocation ends with the exception of set_tags.
C17_TagFailureDoesNotAbort ==
    error # "TagError"

\* the random_seed field of the sweep config passed to split_configs
SweptSeed == aml_tags.model_config["random_seed"]

\* every bundle carries its own concrete config, that config's random_seed
\* as model seed and the dataset config's random_seed as dataset seed
OwnSeeds ==
    \A i \in 1..Len(dispatched) :
        /\ dispatched[i].model_config = configs[i][1]
        /\ dispatched[i].model_seed = configs[i][1]["random_seed"]
        /\ ~dispatched[i].model_seed.isList
        /\ dispatched[i].dataset_seed = aml_tags.dataset_config["random_seed"]
        /\ ~SweptSeed.isList => dispatched[i].model_seed = SweptSeed
        /\ SweptSeed.isList => dispatched[i].model_seed.val[1] \in Range(SweptSeed.val)

\* C18 as stated: every bundle's model seed is its concrete config's own
\* random_seed, the dataset seed is the dataset config's random_seed, and
\* when random_seed is a swept list the i-th variant is dispatched with the
\* i-th candidate seed.
C18_IthVariantIthCandidate ==
    /\ OwnSeeds
    /\ (dispatched # <<>> /\ SweptSeed.isList) =>
          \A i \in 1..Len(dispatched) :
              /\ i <= Len(SweptSeed.val)
              /\ dispatched[i].model_seed = Scalar(SweptSeed.val[i])

\* C18 amended: every bundle's model seed is its concrete config's own
\* random_seed, the dataset seed is the dataset config's random_seed, and
\* when random_seed is a swept list every variant is dispatched with the
\* candidate seed of its own combination of the product: the i-th candidate
\* for the i-th variant when random_seed is the only swept field.
C18_OwnSeedOfCombination ==
    /\ OwnSeeds
    /\ (/\ dispatched # <<>>
        /\ SweptSeed.isList
        /\ ListFields(aml_tags.model_config) = {"random_seed"}) =>
          \A i \in 1..Len(dispatched) :
              /\ i <= Len(SweptSeed.val)
              /\ dispatched[i].model_seed = Scalar(SweptSeed.val[i])

\* two seeds swept together with two learning rates: the third of the four
\* variants is dispatched with the first candidate seed
C18_Witness ==
    /\ Len(dispatched) = 4
    /\ SweptSeed = List(<<1, 2>>)
    /\ aml_tags.model_config["lr"].isList
    /\ dispatched[3].model_seed = Scalar(1)
    /\ dispatched[4].model_seed = Scalar(2)
    /\ dispatched[4].dataset_seed = 1

\* C19: split_configs leaves both inputs unchanged: after the call the
\* caller's model_config still holds its list-valued fields and every other
\* field, each returned concrete config is a copy that differs from it only
\* in the swept fields, and the dataset_config of every pair is the input
\* dataset_config.
C19_SplitLeavesInputsUnchanged ==
    [][(pc = "split_configs" /\ pc' = "set_num_samples") =>
          /\ model_config' = model_config
          /\ dataset_config' = dataset_config
          /\ ListFields(model_config') = ListFields(model_config)
          /\ \A t \in 1..Len(configs') :
                /\ configs'[t][2] = dataset_config
                /\ \A key \in Keys \ ListFields(model_config) :
                      configs'[t][1][key] = model_config[key]
                /\ \A key \in ListFields(model_config) :
                      /\ ~configs'[t][1][key].isList
                      /\ model_config[key].isList]_vars

\* a sweep of two fields has been expanded into four concrete configs, none
\* of them equal to the config that was passed in, which still has its lists
C19_Witness ==
    /\ SplitReturned
    /\ Len(configs) = 4
    /\ \A t \in 1..4 : configs[t][1] # model_config /\ configs[t][2] = dataset_config
    /\ \E key \in Keys : model_config[key] = List(<<2, 1>>)

\* the descriptor files of kwargs_files that are still on disk
FilesOnDisk == {f \in TrackedFiles : f.kind = "kwargs_file" /\ f.id \in files}

\* C20: when pipeline.run fails in pipeline mode its error leaves
\* run_experiment at that call and none of the N+1 descriptor files is
\* deleted, then or later; and when delete_kwargs_files is false no file is
\* ever deleted, in either mode.
C20_FailedRunOrNoDeleteKeepsFiles ==
    /\ [](error = "PipelineError" =>
             /\ PipelineMode
             /\ pc = "pipeline_run"
             /\ run_calls = 1
             /\ removed = <<>>
             /\ Len(kwargs_files) = Len(configs) + 1
             /\ Cardinality(FilesOnDisk) = Len(configs) + 1
             /\ result = <<>>)
    /\ [](~delete_kwargs_files =>
             /\ removed = <<>>
             /\ pc # "cleanup"
             /\ \A f \in TrackedFiles : f.kind = "kwargs_file" => f \in FilesOnDisk)
    /\ [][(error = "PipelineError" \/ ~delete_kwargs_files) =>
             /\ files \subseteq files'
             /\ removed' = removed]_vars

\* pipeline.run has failed after two of four run steps, with deletion
\* requested: the five descriptor files are all still there
C20_Witness ==
    /\ PipelineMode
    /\ delete_kwargs_files
    /\ error = "PipelineError"
    /\ Len(executed_runs) = 2
    /\ Cardinality(FilesOnDisk) = 5
    /\ removed = <<>>

=============================================================================
